---- MODULE Spec2Model ----
(***************************************************************************)
(* Pi Audio Sync: the AudioManager (src/audio/manager.py), the HTTP routes *)
(* that drive it (src/api/routes.py), the BluetoothManager                 *)
(* (src/audio/bluetooth.py) and its pairing agent (src/audio/agent.py).    *)
(*                                                                         *)
(* The PipeWire graph and the BlueZ bus are the environment: nodes appear  *)
(* and disappear with volatile ids, commands may fail.  One action models  *)
(* one whole handler.  Volumes are integer percentages; the float          *)
(* node.volume of the code is the percentage divided by 100.               *)
(***************************************************************************)
EXTENDS Integers, Sequences, FiniteSets, TLC

VARIABLES
    \* ---- PipeWire (environment) ----
    nodes,          \* sink node name -> backend id, 0 when the node is absent
    srcs,           \* source node name -> backend id, 0 when absent
    links,          \* physical links, a set of <<source id, sink id>>
    \* ---- AudioManager ----
    sinks,          \* self.sinks: sequence of [id, name, volume, mute]
    device_states,  \* self.device_states: name -> [volume, muted]
    sources,        \* self.sources: name -> id
    routing,        \* self.routing: source name -> set of sink names
    \* ---- observation of the last handler ----
    lastOp,         \* the last handler that ran, its arguments and its result
    lastCmds,       \* the state-changing backend commands it issued, in order
    churn,          \* per sink name: the desired state it had when it vanished
    \* ---- BlueZ (environment) ----
    bluez,          \* device path -> [present, connected, paired, trusted]
    trustFile,      \* addresses in ~/.config/pi-audio-sync/trusted_devices.json
    \* ---- BluetoothManager ----
    devices,        \* self.devices: path -> [address, trusted, paired]
    trusted_devices,\* self.trusted_devices: the addresses it holds
    timers,         \* path -> number of armed GLib reconnect timers
    \* ---- observation of the Bluetooth handlers ----
    btLast,         \* the last Bluetooth handler that ran and its result
    dropped,        \* paths whose link has dropped and is not back
    autoFails,      \* path -> failed automatic Connect() in a row since the drop
    pairedOk,       \* paths for which pair_device has returned True
    \* ---- API thread ----
    iter,           \* the dict iterator of a reader of self.devices
    \* ---- discovery ----
    discovery       \* self.discovering, the adapter, the armed stop timers

audioVars == <<nodes, srcs, links, sinks, device_states, sources,
               routing, lastOp, lastCmds, churn>>

btVars == <<bluez, trustFile, devices, trusted_devices, timers,
            btLast, dropped, autoFails, pairedOk, iter, discovery>>

vars == <<audioVars, btVars>>

----------------------------------------------------------------------------
\* Bounds of the model.

\* the ids of sink nodes are drawn from 1..MaxId and are reused by the backend
MaxId == 2

Keys == {"K1", "K2"}            \* node.name of the sink nodes that can exist
Sources == {"S1"}               \* node.name of the source nodes that can exist
Ids == 1..MaxId
VolInputs == {-1, 40, 101}       \* volumes a caller passes to set_volume
MaxDev == 1
DevIds == 0..MaxDev

----------------------------------------------------------------------------
\* Helpers for Python dictionaries and lists.

Put(f, k, v) == [x \in (DOMAIN f) \cup {k} |-> IF x = k THEN v ELSE f[x]]

EmptyMap == [x \in {} |-> 0]

SetAt(s, i, v) == [s EXCEPT ![i] = v]

Cmd(c, id, arg) == [cmd |-> c, id |-> id, arg |-> arg]

LiveSinkIds == {nodes[k] : k \in Keys} \ {0}
PresentKeys == {k \in Keys : nodes[k] # 0}
PresentSources == {s \in Sources : srcs[s] # 0}
\* the id a source node gets while it exists: above the ids of the sinks
SrcIdOf(s) == MaxId + 1

\* pw-cli lists the nodes in the order of their ids
RECURSIVE SortById(_, _)
SortById(S, idOf) ==
    IF S = {} THEN <<>>
    ELSE LET k == CHOOSE x \in S : \A y \in S : idOf[x] <= idOf[y]
         IN  <<k>> \o SortById(S \ {k}, idOf)

----------------------------------------------------------------------------
\* AudioManager._set_driver_volume: the commands it issues for one node.

Sqrt2Milli == 1414
BaseGainMilli == 1122
CapMilli == 2000

RECURSIVE Pow2(_)
Pow2(n) == IF n <= 0 THEN 1 ELSE 2 * Pow2(n - 1)

\* compensation, in thousandths: 1.0 if no active sink, else 2 ** ((n-1)/2)
Compensation(n) ==
    IF n = 0 THEN 1000
    ELSE IF (n - 1) % 2 = 0 THEN 1000 * Pow2((n - 1) \div 2)
    ELSE Sqrt2Milli * Pow2((n - 2) \div 2)

Min(a, b) == IF a <= b THEN a ELSE b

\* the write without the cap
CompensatedVolumeUncapped(n) ==
    (BaseGainMilli * Compensation(n)) \div 1000

CompensatedVolume(n) ==
    Min((BaseGainMilli * Compensation(n)) \div 1000, CapMilli)

ActiveSinks(sk) == Cardinality({i \in 1..Len(sk) : sk[i].volume > 0})

SetDriverVolume(id, sk) ==
    << Cmd("buffer", id, 0), Cmd("gain", id, CompensatedVolume(ActiveSinks(sk))) >>

----------------------------------------------------------------------------
\* AudioManager._ensure_audio_routing, given the sources _find_sources found.

SinkNames(sk) == {sk[i].name : i \in 1..Len(sk)}

\* a routing map rebuilt from the sources found alone
RoutingAfterFoundOnly(found, sk, rt) ==
    [s \in found |->
        (IF s \in DOMAIN rt THEN rt[s] ELSE {}) \cup SinkNames(sk)]

RoutingAfter(found, sk, rt) ==
    IF DOMAIN rt = {}
    THEN [s \in found |-> SinkNames(sk)]
    ELSE [s \in (DOMAIN rt) \cup found |->
            IF s \in found
            THEN (IF s \in DOMAIN rt THEN rt[s] ELSE {}) \cup SinkNames(sk)
            ELSE rt[s]]

RECURSIVE LinkCmdsFor(_, _, _)
LinkCmdsFor(sid, sk, i) ==
    IF i > Len(sk) THEN <<>>
    ELSE <<Cmd("link", sid, sk[i].id)>> \o LinkCmdsFor(sid, sk, i + 1)

RECURSIVE LinkCmds(_, _)
LinkCmds(ss, sk) ==
    IF ss = <<>> THEN <<>>
    ELSE LinkCmdsFor(srcs[Head(ss)], sk, 1) \o LinkCmds(Tail(ss), sk)

\* pw-link <source id> <sink id> links the two nodes when both exist
LinksAfter(found, sk, lk, linksOk) ==
    IF linksOk
    THEN lk \cup {<<srcs[s], sk[i].id>> : s \in found,
                    i \in {j \in 1..Len(sk) : sk[j].id \in LiveSinkIds}}
    ELSE lk

EnsureAudioRouting(found, sk, rt, lk, linksOk) ==
    [sources |-> [s \in found |-> srcs[s]],
     routing |-> RoutingAfter(found, sk, rt),
     links   |-> LinksAfter(found, sk, lk, linksOk),
     cmds    |-> LinkCmds(SortById(found, srcs), sk)]

----------------------------------------------------------------------------
\* AudioManager._create_combined_sink: unloads the combine-stream module,
\* then, with two sinks or more, loads it over the ids of self.sinks.  No
\* method of the manager calls it.

SinkIds(sk) == {sk[i].id : i \in 1..Len(sk)}

\* a variant that loads the module whatever the number of sinks
CreateCombinedSinkAlways(sk) ==
    <<Cmd("destroy_combined", 0, 0), Cmd("create_combined", 0, SinkIds(sk))>>

CreateCombinedSink(sk) ==
    IF Len(sk) < 2 THEN <<Cmd("destroy_combined", 0, 0)>>
    ELSE <<Cmd("destroy_combined", 0, 0), Cmd("create_combined", 0, SinkIds(sk))>>

\* the member ids of the combined sink the backend holds ({} if it holds
\* none) once a sequence of commands has run, given what it held
RECURSIVE CombinedAfter(_, _)
CombinedAfter(cmds, members) ==
    IF cmds = <<>> THEN members
    ELSE LET c == Head(cmds)
         IN  CombinedAfter(Tail(cmds),
                 IF c.cmd = "destroy_combined" THEN {}
                 ELSE IF c.cmd = "create_combined" THEN c.arg
                 ELSE members)

----------------------------------------------------------------------------
\* AudioManager._init_audio.  seen: the sink nodes whose listing and info
\* calls succeeded.  When the graph holds no node at all the first listing
\* comes back empty: pipewire-pulse is restarted and the nodes listed again.

NoNodes == PresentKeys = {} /\ PresentSources = {}

DefaultVolume == 5

\* a scan that stores, for a sink without a saved state, the full volume a
\* fresh node reports instead of the default
RECURSIVE ScanSinksReported(_, _, _, _)
ScanSinksReported(ks, sk, ds, cmds) ==
    IF ks = <<>> THEN [sinks |-> sk, device_states |-> ds, cmds |-> cmds]
    ELSE LET k      == Head(ks)
             id     == nodes[k]
             has    == k \in DOMAIN ds
             volume == IF has THEN ds[k].volume ELSE 100
             muted  == IF has THEN ds[k].muted ELSE FALSE
             sink   == [id |-> id, name |-> k, volume |-> volume, mute |-> muted]
         IN  ScanSinksReported(Tail(ks), Append(sk, sink),
                       Put(ds, k, [volume |-> volume, muted |-> muted]),
                       cmds \o SetDriverVolume(id, sk))

RECURSIVE ScanSinks(_, _, _, _)
ScanSinks(ks, sk, ds, cmds) ==
    IF ks = <<>> THEN [sinks |-> sk, device_states |-> ds, cmds |-> cmds]
    ELSE LET k      == Head(ks)
             id     == nodes[k]
             has    == k \in DOMAIN ds
             volume == IF has THEN ds[k].volume ELSE DefaultVolume
             muted  == IF has THEN ds[k].muted ELSE FALSE
             sink   == [id |-> id, name |-> k, volume |-> volume, mute |-> muted]
         IN  ScanSinks(Tail(ks), Append(sk, sink),
                       Put(ds, k, [volume |-> volume, muted |-> muted]),
                       cmds \o SetDriverVolume(id, sk))

MetadataCmds == << Cmd("metadata", 0, 48000), Cmd("metadata", 0, 1024) >>

InitAudio(seen, found, linksOk, ds, rt, lk) ==
    LET scan == ScanSinks(SortById(seen, nodes), <<>>, ds,
                          IF NoNodes THEN <<Cmd("restart", 0, 0)>> ELSE <<>>)
        rte  == EnsureAudioRouting(found, scan.sinks, rt, lk, linksOk)
    IN  [sinks         |-> scan.sinks,
         device_states |-> scan.device_states,
         sources       |-> rte.sources,
         routing       |-> rte.routing,
         links         |-> rte.links,
         cmds          |-> scan.cmds \o MetadataCmds \o rte.cmds]

----------------------------------------------------------------------------
\* AudioManager.refresh_devices.

\* a restore loop that stores the volume fraction where the percentage belongs
RECURSIVE RestoreStatesFraction(_, _, _, _, _)
RestoreStatesFraction(i, sk, ds, current_states, cmds) ==
    IF i > Len(sk) THEN [sinks |-> sk, device_states |-> ds, cmds |-> cmds]
    ELSE LET name   == sk[i].name
             volume == IF name \in DOMAIN current_states
                       THEN current_states[name].volume ELSE DefaultVolume
         IN  RestoreStatesFraction(i + 1,
                 SetAt(sk, i, [sk[i] EXCEPT !.volume = volume]),
                 Put(ds, name, [volume |-> volume \div 100, muted |-> FALSE]),
                 current_states,
                 Append(cmds, Cmd("volume", sk[i].id, volume)))

\* the "restore states" loop over self.sinks
RECURSIVE RestoreStates(_, _, _, _, _)
RestoreStates(i, sk, ds, current_states, cmds) ==
    IF i > Len(sk) THEN [sinks |-> sk, device_states |-> ds, cmds |-> cmds]
    ELSE LET name == sk[i].name
         IN  IF name \in DOMAIN current_states
             THEN LET volume == current_states[name].volume
                  IN  RestoreStates(i + 1,
                         SetAt(sk, i, [sk[i] EXCEPT !.volume = volume]),
                         Put(ds, name, [volume |-> volume, muted |-> FALSE]),
                         current_states,
                         Append(cmds, Cmd("volume", sk[i].id, volume)))
             ELSE RestoreStates(i + 1,
                         SetAt(sk, i, [sk[i] EXCEPT !.volume = DefaultVolume]),
                         Put(ds, name, [volume |-> DefaultVolume, muted |-> FALSE]),
                         current_states,
                         Append(cmds, Cmd("volume", sk[i].id, DefaultVolume)))

RefreshDevices(seen, found, linksOk) ==
    LET current_states == device_states
        cleared == IF linksOk THEN {} ELSE links
        init    == InitAudio(seen, found, linksOk,
                             device_states, routing, cleared)
        rest    == RestoreStates(1, init.sinks, init.device_states,
                                 current_states, <<>>)
        rte     == EnsureAudioRouting(found, rest.sinks, init.routing,
                                      init.links, linksOk)
    IN  [sinks         |-> rest.sinks,
         device_states |-> rest.device_states,
         sources       |-> rte.sources,
         routing       |-> rte.routing,
         links         |-> rte.links,
         cmds          |-> <<Cmd("unlink_all", 0, 0)>> \o init.cmds
                           \o rest.cmds \o rte.cmds]

----------------------------------------------------------------------------
\* What a node holds once a sequence of commands has run, given what it held:
\* pw-cli s <id> Props {"volume": v} sets its volume, {"mute": m} its mute;
\* the buffer, gain, metadata and link commands leave both alone.
BackendStates == [volume : {0, DefaultVolume, 40, 100}, mute : BOOLEAN]

RECURSIVE BackendAfter(_, _, _)
BackendAfter(cmds, id, b) ==
    IF cmds = <<>> THEN b
    ELSE LET c == Head(cmds)
         IN  BackendAfter(Tail(cmds), id,
                 IF c.id = id /\ c.cmd = "volume" THEN [b EXCEPT !.volume = c.arg]
                 ELSE IF c.id = id /\ c.cmd = "mute" THEN [b EXCEPT !.mute = (c.arg = 1)]
                 ELSE b)

----------------------------------------------------------------------------
\* AudioManager.get_devices reports int(float(node.volume) * 100), where
\* node.volume is the stored percentage / 100.
ReportPct(v) == IF v \in {29, 57, 58} THEN v - 1 ELSE v

----------------------------------------------------------------------------
\* AudioManager.set_volume(device_id, volume).  ok: the property-set command
\* returned status 0.

\* a loop over the sinks that returns after its first round
DriverCmdsFirst(sk, i) ==
    IF i > Len(sk) THEN <<>> ELSE SetDriverVolume(sk[i].id, sk)

RECURSIVE DriverCmdsAll(_, _)
DriverCmdsAll(sk, i) ==
    IF i > Len(sk) THEN <<>>
    ELSE SetDriverVolume(sk[i].id, sk) \o DriverCmdsAll(sk, i + 1)

Unchanged(ret, cmds) ==
    [ret |-> ret, sinks |-> sinks, device_states |-> device_states,
     sources |-> sources, routing |-> routing, links |-> links,
     cmds |-> cmds]

\* set_volume once the volume has passed the range check
SetVolumeInRange(device_id, volume, ok, found, linksOk) ==
    IF 0 <= device_id /\ device_id < Len(sinks)
    THEN LET sink == sinks[device_id + 1]
             cmd  == Cmd("volume", sink.id, volume)
         IN  IF ok
             THEN LET sk   == SetAt(sinks, device_id + 1,
                                    [sink EXCEPT !.volume = volume])
                      name == sink.name
                      ds   == IF name \in DOMAIN device_states
                              THEN [device_states EXCEPT ![name].volume = volume]
                              ELSE Put(device_states, name,
                                       [volume |-> volume, muted |-> FALSE])
                      rte  == EnsureAudioRouting(found, sk, routing, links, linksOk)
                  IN  [ret |-> TRUE, sinks |-> sk, device_states |-> ds,
                       sources |-> rte.sources, routing |-> rte.routing,
                       links |-> rte.links,
                       cmds |-> <<cmd>> \o DriverCmdsAll(sk, 1) \o rte.cmds]
             ELSE Unchanged(FALSE, <<cmd>>)
    ELSE Unchanged(FALSE, <<>>)

Clamp(v) == IF v < 0 THEN 0 ELSE IF v > 100 THEN 100 ELSE v

\* a set_volume that clamps an out-of-range volume instead of raising
SetVolumeClamping(device_id, volume, ok, found, linksOk) ==
    SetVolumeInRange(device_id, Clamp(volume), ok, found, linksOk)

\* a set_volume without the range check
SetVolumeUnchecked(device_id, volume, ok, found, linksOk) ==
    SetVolumeInRange(device_id, volume, ok, found, linksOk)

SetVolume(device_id, volume, ok, found, linksOk) ==
    IF ~(0 <= volume /\ volume <= 100)
    THEN Unchanged(FALSE, <<>>)             \* ValueError, caught: return False
    ELSE SetVolumeInRange(device_id, volume, ok, found, linksOk)

\* a set_mute that stores the mute before it looks at the command's result
SetMuteStoring(device_id, muted, ok) ==
    IF 0 <= device_id /\ device_id < Len(sinks)
    THEN LET sink == sinks[device_id + 1]
             cmd  == Cmd("mute", sink.id, IF muted THEN 1 ELSE 0)
             name == sink.name
         IN  [Unchanged(ok, <<cmd>>) EXCEPT
                !.sinks = SetAt(sinks, device_id + 1,
                                [sink EXCEPT !.mute = muted]),
                !.device_states =
                    IF name \in DOMAIN device_states
                    THEN [device_states EXCEPT ![name].muted = muted]
                    ELSE Put(device_states, name,
                             [volume |-> 100, muted |-> muted])]
    ELSE Unchanged(FALSE, <<>>)

\* AudioManager.set_mute(device_id, muted)
SetMute(device_id, muted, ok) ==
    IF 0 <= device_id /\ device_id < Len(sinks)
    THEN LET sink == sinks[device_id + 1]
             cmd  == Cmd("mute", sink.id, IF muted THEN 1 ELSE 0)
         IN  IF ok
             THEN LET name == sink.name
                  IN  [Unchanged(TRUE, <<cmd>>) EXCEPT
                         !.sinks = SetAt(sinks, device_id + 1,
                                         [sink EXCEPT !.mute = muted]),
                         !.device_states =
                             IF name \in DOMAIN device_states
                             THEN [device_states EXCEPT ![name].muted = muted]
                             ELSE Put(device_states, name,
                                      [volume |-> 100, muted |-> muted])]
             ELSE Unchanged(FALSE, <<cmd>>)
    ELSE Unchanged(FALSE, <<>>)

\* AudioManager.set_source_routing(source_id, sink_names).  found: what
\* _find_sources returns during the handler.
SetSourceRouting(source_id, sink_names, found, linksOk) ==
    LET srcList == SortById(found, srcs)
    IN  IF 0 <= source_id /\ source_id < Len(srcList)
        THEN LET name == srcList[source_id + 1]
                 rt   == Put(routing, name, sink_names)
                 rte  == EnsureAudioRouting(found, sinks, rt, links, linksOk)
             IN  [Unchanged(TRUE, rte.cmds) EXCEPT
                     !.sources = rte.sources,
                     !.routing = rte.routing,
                     !.links   = rte.links]
        ELSE Unchanged(FALSE, <<>>)

\* AudioManager.get_sources: the "outputs" reported for each source found
GetSources(found) ==
    [s \in found |-> IF s \in DOMAIN routing THEN routing[s] ELSE {}]

----------------------------------------------------------------------------
\* The HTTP routes: the status code the caller receives.

\* set_volume_post, mute_device, unmute_device: the HTTPException(400) raised
\* on a False result is caught by the route's own "except Exception"
SetVolumePostStatus(ret) == IF ret THEN 200 ELSE 500
MuteDeviceStatus(ret) == IF ret THEN 200 ELSE 500
\* set_source_routing raises its 404 outside any try block
SetSourceRoutingStatus(ret) == IF ret THEN 200 ELSE 404

----------------------------------------------------------------------------
\* Bookkeeping of the observation variables.

constructed == lastOp.op # "none"

\* the sink self.sinks[device_id] names, the source _find_sources()[source_id] names
SinkNameAt(device_id) ==
    IF 0 <= device_id /\ device_id < Len(sinks) THEN sinks[device_id + 1].name ELSE ""
SourceNameAt(source_id, found) ==
    IF 0 <= source_id /\ source_id < Cardinality(found)
    THEN SortById(found, srcs)[source_id + 1] ELSE ""

\* lastOp: the handler, the index it was given, the sink or source name that
\* index addressed ("" if none), its integer argument, its set argument (for
\* a pass: the sink names it stored a state for that had none before), the
\* value the manager returned, the HTTP status, and whether the handler was a
\* pass that directly followed a pass over the same inventory
Op(op, dev, key, arg, names, ret, status) ==
    [op |-> op, dev |-> dev, key |-> key, arg |-> arg, names |-> names,
     ret |-> ret, status |-> status, again |-> FALSE]

\* churn records, per sink name with a stored state, that its node vanished
\* ("gone", with the id it had), that the node came back under another id
\* ("back"), and that a pass has listed it since ("reconciled", for one state,
\* with the stored state the sink had when it vanished).  Nothing writes the
\* stored state of a sink between "gone" and the pass except a setter, which
\* ends the record, so the state the pass starts from is the state the sink had
\* when it vanished.  A behaviour that starts with ChurnOff records nothing.
NoChurn == [stage |-> "none", volume |-> 0, muted |-> FALSE, id |-> 0]
ChurnOff == [k \in Keys |-> [NoChurn EXCEPT !.stage = "off"]]
ChurnOn == [k \in Keys |-> NoChurn]

Settle(c) == [k \in Keys |-> IF c[k].stage = "reconciled" THEN NoChurn ELSE c[k]]

Vanished(c, k) ==
    IF c = ChurnOff THEN c
    ELSE [Settle(c) EXCEPT ![k] =
            IF k \in DOMAIN device_states
            THEN [NoChurn EXCEPT !.stage = "gone", !.id = nodes[k]]
            ELSE NoChurn]

Returned(c, k, id) ==
    IF c = ChurnOff THEN c
    ELSE [Settle(c) EXCEPT ![k] =
            IF c[k].stage = "gone" /\ c[k].id # id
            THEN [c[k] EXCEPT !.stage = "back", !.id = 0]
            ELSE NoChurn]

\* a pass that lists a sink which came back under a new id reconciles it
Reconcile(c, seen) ==
    IF c = ChurnOff THEN c
    ELSE [k \in Keys |-> IF k \in seen /\ c[k].stage = "back"
                         THEN [stage |-> "reconciled",
                               volume |-> device_states[k].volume,
                               muted |-> device_states[k].muted, id |-> 0]
                         ELSE Settle(c)[k]]

\* a successful setter on a sink replaces the intent recorded for it
Forget(c, hit, name) ==
    IF c = ChurnOff THEN c
    ELSE IF hit THEN [Settle(c) EXCEPT ![name] = NoChurn] ELSE Settle(c)

----------------------------------------------------------------------------
\* The environment: the PipeWire graph changes under the manager.

FreeIds == Ids \ LiveSinkIds

Idle == Op(IF lastOp.op = "none" THEN "none" ELSE "idle", 0, "", 0, {}, TRUE, 0)

NodeAppear(k, id) ==
    /\ nodes[k] = 0
    /\ id \in FreeIds
    /\ nodes' = [nodes EXCEPT ![k] = id]
    /\ churn' = Returned(churn, k, id)
    /\ lastOp' = Idle /\ lastCmds' = <<>>
    /\ UNCHANGED <<srcs, links, sinks, device_states, sources, routing>>
    /\ UNCHANGED btVars

\* a sink node appears under the lowest id no live sink holds
NodeAppearLowest(k) ==
    \E id \in FreeIds : (\A j \in FreeIds : id <= j) /\ NodeAppear(k, id)

NodeDisappear(k) ==
    /\ nodes[k] # 0
    /\ nodes' = [nodes EXCEPT ![k] = 0]
    /\ links' = {l \in links : l[2] # nodes[k]}
    /\ churn' = Vanished(churn, k)
    /\ lastOp' = Idle /\ lastCmds' = <<>>
    /\ UNCHANGED <<srcs, sinks, device_states, sources, routing>>
    /\ UNCHANGED btVars

SourceAppear(s) ==
    /\ srcs[s] = 0
    /\ srcs' = [srcs EXCEPT ![s] = SrcIdOf(s)]
    /\ churn' = Forget(churn, FALSE, "")
    /\ lastOp' = Idle /\ lastCmds' = <<>>
    /\ UNCHANGED <<nodes, links, sinks, device_states, sources, routing>>
    /\ UNCHANGED btVars

\* another client of the graph (the session manager) links a source to a sink
ExternalLink(s, k) ==
    /\ srcs[s] # 0 /\ nodes[k] # 0
    /\ <<srcs[s], nodes[k]>> \notin links
    /\ links' = links \cup {<<srcs[s], nodes[k]>>}
    /\ churn' = Forget(churn, FALSE, "")
    /\ lastOp' = Idle /\ lastCmds' = <<>>
    /\ UNCHANGED <<nodes, srcs, sinks, device_states, sources, routing>>
    /\ UNCHANGED btVars

SourceDisappear(s) ==
    /\ srcs[s] # 0
    /\ srcs' = [srcs EXCEPT ![s] = 0]
    /\ links' = {l \in links : l[1] # srcs[s]}
    /\ churn' = Forget(churn, FALSE, "")
    /\ lastOp' = Idle /\ lastCmds' = <<>>
    /\ UNCHANGED <<nodes, sinks, device_states, sources, routing>>
    /\ UNCHANGED btVars

----------------------------------------------------------------------------
\* The handlers.


\* AudioManager.__init__ after the startup probe: empty maps, then _init_audio
Construct(seen, found, linksOk) ==
    /\ ~constructed
    /\ seen \subseteq PresentKeys /\ found \subseteq PresentSources
    /\ LET r == InitAudio(seen, found, linksOk, EmptyMap, EmptyMap, links)
       IN  /\ sinks' = r.sinks
           /\ device_states' = r.device_states
           /\ sources' = r.sources
           /\ routing' = r.routing
           /\ links' = r.links
           /\ lastCmds' = r.cmds
    /\ lastOp' = Op("init", 0, "", 0, seen, TRUE, 0)
    /\ churn' = Forget(churn, FALSE, "")
    /\ UNCHANGED <<nodes, srcs>>
    /\ UNCHANGED btVars

GetDevices(seen, found, linksOk) ==
    /\ constructed
    /\ seen \subseteq PresentKeys
    /\ found \subseteq PresentSources
    /\ LET r  == RefreshDevices(seen, found, linksOk)
       IN  /\ sinks' = r.sinks
           /\ device_states' = r.device_states
           /\ sources' = r.sources
           /\ routing' = r.routing
           /\ links' = r.links
           /\ lastCmds' = r.cmds
    /\ lastOp' = [Op("get_devices", 0, "", 0,
                      seen \ DOMAIN device_states, TRUE, 200) EXCEPT
                     !.again = /\ lastOp.op = "get_devices"
                               /\ SinkNames(sinks) = seen
                               /\ DOMAIN sources = found]
    /\ churn' = Reconcile(churn, seen)
    /\ UNCHANGED <<nodes, srcs>>
    /\ UNCHANGED btVars

\* POST /devices/{device_id}/volume
SetVolumePost(device_id, volume, ok, found, linksOk) ==
    /\ constructed
    /\ found \subseteq PresentSources
    /\ LET r == SetVolume(device_id, volume, ok, found, linksOk)
       IN  /\ sinks' = r.sinks
           /\ device_states' = r.device_states
           /\ sources' = r.sources
           /\ routing' = r.routing
           /\ links' = r.links
           /\ lastCmds' = r.cmds
           /\ lastOp' = Op("set_volume", device_id, SinkNameAt(device_id), volume,
                           {}, r.ret, SetVolumePostStatus(r.ret))
           /\ churn' = Forget(churn, r.ret, SinkNameAt(device_id))
    /\ UNCHANGED <<nodes, srcs>>
    /\ UNCHANGED btVars

\* POST /devices/{device_id}/mute and /unmute
MuteDevice(device_id, muted, ok) ==
    /\ constructed
    /\ LET r == SetMute(device_id, muted, ok)
       IN  /\ sinks' = r.sinks
           /\ device_states' = r.device_states
           /\ lastCmds' = r.cmds
           /\ lastOp' = Op("set_mute", device_id, SinkNameAt(device_id),
                           IF muted THEN 1 ELSE 0, {}, r.ret,
                           MuteDeviceStatus(r.ret))
           /\ churn' = Forget(churn, r.ret, SinkNameAt(device_id))
    /\ UNCHANGED <<nodes, srcs, links, sources, routing>>
    /\ UNCHANGED btVars

\* POST /sources/{source_id}/route
SetSourceRoutingPost(source_id, sink_names, found, linksOk) ==
    /\ constructed
    /\ found \subseteq PresentSources
    /\ LET r == SetSourceRouting(source_id, sink_names, found, linksOk)
       IN  /\ sources' = r.sources
           /\ routing' = r.routing
           /\ links' = r.links
           /\ lastCmds' = r.cmds
           /\ lastOp' = Op("set_source_routing", source_id,
                           SourceNameAt(source_id, found), 0, sink_names, r.ret,
                           SetSourceRoutingStatus(r.ret))
    /\ churn' = Forget(churn, FALSE, "")
    /\ UNCHANGED <<nodes, srcs, sinks, device_states>>
    /\ UNCHANGED btVars

----------------------------------------------------------------------------
\* BluetoothManager (src/audio/bluetooth.py) and BluetoothAgent
\* (src/audio/agent.py).  A D-Bus signal and the handler it runs are one
\* action.

Paths == {"P1"}                 \* the device object paths BlueZ can export
Addrs == {"A1"}
Addr(p) == "A1"                 \* the Address property of the device at p

\* service UUIDs an authorization can ask for, by their prefix: A2DP source,
\* A2DP sink, PnP information
Uuids == {"0000110a", "0000110b", "00001200"}

\* at most MaxTimers reconnect timers are armed for a path
MaxTimers == 2

\* the retry bound of the design (maxRetries)
MaxRetries == 3

\* automatic failures in a row are counted up to FailCap
FailCap == MaxRetries + 1

Absent ==
    [present |-> FALSE, connected |-> FALSE, paired |-> FALSE, trusted |-> FALSE]

BluezStates ==
    {Absent} \cup [present : {TRUE}, connected : BOOLEAN,
                   paired : BOOLEAN, trusted : BOOLEAN]

BtOp(op, p, uuid, ret, auto) ==
    [op |-> op, path |-> p, uuid |-> uuid, ret |-> ret, auto |-> auto]

\* BluetoothManager._load_trusted_devices: the keys of the stored object
LoadTrustedDevices(file) == file

\* BluetoothManager._setup_profiles: sets the BlueZ Trusted property (the
\* Set may fail, which is logged and ignored) and connects the A2DP profile
SetupProfiles(b, trustOk) ==
    IF b.present THEN [b EXCEPT !.trusted = @ \/ trustOk] ELSE b

\* _properties_changed with Connected = True
PropertiesChangedConnected(b, trustOk) ==
    SetupProfiles([b EXCEPT !.connected = TRUE], trustOk)

\* a _handle_disconnect that schedules a reconnect for any device
HandleDisconnectAny(p, n) ==
    n + 1

\* BluetoothManager._handle_disconnect: the number of timers for the path
HandleDisconnect(p, n) ==
    IF Addr(p) \in trusted_devices THEN n + 1 ELSE n

\* BluetoothManager._try_connect: Device1.Connect(); True unless it raised.
\* A device that gets connected signals Connected = True.
TryConnect(b, ok, trustOk) ==
    IF ~(b.present /\ ok) THEN [dev |-> b, ret |-> FALSE]
    ELSE IF b.connected THEN [dev |-> b, ret |-> TRUE]
    ELSE [dev |-> PropertiesChangedConnected(b, trustOk), ret |-> TRUE]

\* BluetoothManager._trust_device: sets an attribute of the local proxy
\* object; neither BlueZ nor self.trusted_devices changes
TrustDevice(b) == b

\* BluetoothManager.pair_device: Device1.Pair(); True unless it raised
PairDevice(b, ok) ==
    IF b.present /\ ~b.paired /\ ok
    THEN [dev |-> [b EXCEPT !.paired = TRUE], ret |-> TRUE]
    ELSE [dev |-> b, ret |-> FALSE]

\* BluetoothManager.connect_device: Device1.Connect(), then _setup_profiles
ConnectDevice(b, ok, trustOk) ==
    IF b.present /\ ok
    THEN [dev |-> PropertiesChangedConnected(b, trustOk), ret |-> TRUE]
    ELSE [dev |-> b, ret |-> FALSE]

\* BluetoothAgent.AuthorizeService: returns, which authorizes the service;
\* a rejection would be a raised org.bluez.Error.Rejected
AuthorizeService(device, uuid) == TRUE

\* failed automatic Connect() in a row for a device whose link has dropped,
\* after one more automatic attempt
AfterAuto(n, isDropped, ret) ==
    IF ret THEN 0 ELSE IF isDropped THEN n + 1 ELSE n

\* the paths whose link has dropped, once the link of p is up or not
AfterLink(p, up) == IF up THEN dropped \ {p} ELSE dropped

\* _interfaces_added for a Device1 object
InterfacesAdded(p, connected, paired, trusted, ok, trustOk) ==
    /\ ~bluez[p].present
    /\ LET b    == [present |-> TRUE, connected |-> connected,
                    paired |-> paired, trusted |-> trusted]
           known == Addr(p) \in trusted_devices
           auto == known /\ ~connected
           r    == IF auto THEN TryConnect(TrustDevice(b), ok, trustOk)
                   ELSE [dev |-> b, ret |-> FALSE]
       IN  /\ (auto /\ ~r.ret /\ p \in dropped) => autoFails[p] < FailCap
           /\ bluez' = [bluez EXCEPT ![p] = r.dev]
           /\ devices' = Put(devices, p, [address |-> Addr(p),
                                          trusted |-> trusted, paired |-> paired])
           /\ dropped' = AfterLink(p, r.dev.connected)
           /\ autoFails' = [autoFails EXCEPT ![p] =
                               IF auto THEN AfterAuto(@, p \in dropped, r.ret)
                               ELSE IF connected THEN 0 ELSE @]
           /\ btLast' = BtOp("added", p, "", r.ret, auto)
    /\ UNCHANGED <<trustFile, trusted_devices, timers, pairedOk>>
    /\ UNCHANGED <<iter, discovery>>
    /\ UNCHANGED audioVars

\* _interfaces_removed; armed timers stay armed
InterfacesRemoved(p) ==
    /\ bluez[p].present
    /\ bluez' = [bluez EXCEPT ![p] = Absent]
    /\ devices' = [q \in DOMAIN devices \ {p} |-> devices[q]]
    /\ btLast' = BtOp("removed", p, "", TRUE, FALSE)
    /\ UNCHANGED <<trustFile, trusted_devices, timers, dropped, autoFails,
                   pairedOk>>
    /\ UNCHANGED <<iter, discovery>>
    /\ UNCHANGED audioVars

\* the remote device connects: _properties_changed, Connected = True
DeviceConnected(p, trustOk) ==
    /\ bluez[p].present /\ ~bluez[p].connected
    /\ bluez' = [bluez EXCEPT ![p] = PropertiesChangedConnected(@, trustOk)]
    /\ dropped' = AfterLink(p, TRUE)
    /\ autoFails' = [autoFails EXCEPT ![p] = 0]
    /\ btLast' = BtOp("connected", p, "", TRUE, FALSE)
    /\ UNCHANGED <<trustFile, devices, trusted_devices, timers, pairedOk>>
    /\ UNCHANGED <<iter, discovery>>
    /\ UNCHANGED audioVars

\* the link drops: _properties_changed, Connected = False
DeviceDisconnected(p) ==
    /\ bluez[p].present /\ bluez[p].connected
    /\ HandleDisconnect(p, timers[p]) <= MaxTimers
    /\ bluez' = [bluez EXCEPT ![p].connected = FALSE]
    /\ timers' = [timers EXCEPT ![p] = HandleDisconnect(p, @)]
    /\ dropped' = dropped \cup {p}
    /\ btLast' = BtOp("disconnected", p, "", TRUE, FALSE)
    /\ UNCHANGED <<trustFile, devices, trusted_devices, autoFails, pairedOk>>
    /\ UNCHANGED <<iter, discovery>>
    /\ UNCHANGED audioVars

\* a reconnect timer fires: GLib runs lambda: self._try_connect(path) and
\* keeps the timer when the callback returns True
ReconnectTimer(p, ok, trustOk) ==
    /\ timers[p] > 0
    /\ LET r == TryConnect(bluez[p], ok, trustOk)
       IN  /\ (~r.ret /\ p \in dropped) => autoFails[p] < FailCap
           /\ bluez' = [bluez EXCEPT ![p] = r.dev]
           /\ timers' = [timers EXCEPT ![p] = IF r.ret THEN @ ELSE @ - 1]
           /\ dropped' = AfterLink(p, r.dev.connected)
           /\ autoFails' = [autoFails EXCEPT ![p] =
                               AfterAuto(@, p \in dropped, r.ret)]
           /\ btLast' = BtOp("timer", p, "", r.ret, TRUE)
    /\ UNCHANGED <<trustFile, devices, trusted_devices, pairedOk>>
    /\ UNCHANGED <<iter, discovery>>
    /\ UNCHANGED audioVars

\* BluetoothManager.get_discoverable_devices: the paths of the tracked
\* devices whose stored "paired" is False
GetDiscoverableDevices(dev) == {p \in DOMAIN dev : ~dev[p].paired}

\* a caller pairs the device at p
PairDevicePost(p, ok) ==
    /\ LET r == PairDevice(bluez[p], ok)
       IN  /\ bluez' = [bluez EXCEPT ![p] = r.dev]
           /\ pairedOk' = IF r.ret THEN pairedOk \cup {p} ELSE pairedOk
           /\ btLast' = BtOp("pair", p, "", r.ret, FALSE)
    /\ UNCHANGED <<trustFile, devices, trusted_devices, timers, dropped,
                   autoFails>>
    /\ UNCHANGED <<iter, discovery>>
    /\ UNCHANGED audioVars

\* a caller connects the device at p
ConnectDevicePost(p, ok, trustOk) ==
    /\ LET r == ConnectDevice(bluez[p], ok, trustOk)
       IN  /\ bluez' = [bluez EXCEPT ![p] = r.dev]
           /\ dropped' = AfterLink(p, r.dev.connected)
           /\ btLast' = BtOp("connect", p, "", r.ret, FALSE)
    /\ autoFails' = [autoFails EXCEPT ![p] = 0]
    /\ UNCHANGED <<trustFile, devices, trusted_devices, timers, pairedOk>>
    /\ UNCHANGED <<iter, discovery>>
    /\ UNCHANGED audioVars

\* BlueZ asks the agent to authorize a service of the device at p
AuthorizeServiceCall(p, uuid) ==
    /\ btLast' = BtOp("authorize", p, uuid, AuthorizeService(p, uuid), FALSE)
    /\ UNCHANGED <<bluez, trustFile, devices, trusted_devices, timers,
                   dropped, autoFails, pairedOk>>
    /\ UNCHANGED <<iter, discovery>>
    /\ UNCHANGED audioVars

\* get_connected_devices and get_discoverable_devices run on the API thread
\* and loop over self.devices.items() while the GLib thread runs the signal
\* handlers.  The iterator remembers the size the dict had when the loop
\* began and the paths it has yielded; its next step raises RuntimeError
\* (dictionary changed size during iteration) when the size differs.
Readers == {"get_connected_devices", "get_discoverable_devices"}

NoIter == [reader |-> "", size |-> 0, yielded |-> {}, err |-> FALSE]

\* for path, device in self.devices.items(): the iterator is made
ReaderBegin(r) ==
    /\ iter.reader = ""
    /\ iter' = [reader |-> r, size |-> Cardinality(DOMAIN devices),
                yielded |-> {}, err |-> FALSE]
    /\ UNCHANGED <<bluez, trustFile, devices, trusted_devices, timers,
                   btLast, dropped, autoFails, pairedOk, discovery>>
    /\ UNCHANGED audioVars

\* the loop asks the iterator for the next item and runs its body on it
ReaderNext ==
    /\ iter.reader # "" /\ ~iter.err
    /\ IF Cardinality(DOMAIN devices) # iter.size
       THEN iter' = [iter EXCEPT !.err = TRUE] /\ UNCHANGED btLast
       ELSE IF DOMAIN devices \ iter.yielded = {}
       THEN iter' = NoIter /\ btLast' = BtOp(iter.reader, "", "", TRUE, FALSE)
       ELSE /\ \E p \in DOMAIN devices \ iter.yielded :
                   iter' = [iter EXCEPT !.yielded = @ \cup {p}]
            /\ UNCHANGED btLast
    /\ UNCHANGED <<bluez, trustFile, devices, trusted_devices, timers,
                   dropped, autoFails, pairedOk, discovery>>
    /\ UNCHANGED audioVars

\* the RuntimeError leaves the method: the loop is outside its try block
ReaderRaise ==
    /\ iter.err
    /\ iter' = NoIter
    /\ btLast' = BtOp(iter.reader, "", "", FALSE, FALSE)
    /\ UNCHANGED <<bluez, trustFile, devices, trusted_devices, timers,
                   dropped, autoFails, pairedOk, discovery>>
    /\ UNCHANGED audioVars

\* Discovery.  on: self.discovering; scanning: the adapter is discovering;
\* stopTimers: the armed GLib timeouts that will call _stop_discovery, by
\* source id (the code drops the id timeout_add_seconds returns); session:
\* the id of the timeout armed by the latest start; sent: the StopDiscovery
\* calls the last handler sent to the adapter; starts: the StartDiscovery
\* calls it sent.
NoDiscovery ==
    [on |-> FALSE, scanning |-> FALSE, stopTimers |-> {}, session |-> 0,
     sent |-> 0, starts |-> 0, api |-> "idle", loop |-> "idle"]

\* the source id GLib gives the next timeout: the lowest id not armed
NextSourceId(armed) ==
    CHOOSE t \in 1..(Cardinality(armed) + 1) :
        t \notin armed /\ \A u \in 1..(t - 1) : u \in armed

\* a _stop_discovery that does not look at self.discovering
StopDiscoveryUnguarded(d, ok) ==
    IF ok THEN [d EXCEPT !.on = FALSE, !.scanning = FALSE, !.sent = 1,
                         !.starts = 0]
    ELSE [d EXCEPT !.sent = 1, !.starts = 0]

\* BluetoothManager._stop_discovery; ok: adapter.StopDiscovery() did not raise
StopDiscovery(d, ok) ==
    IF ~d.on THEN [d EXCEPT !.sent = 0, !.starts = 0]
    ELSE IF ok THEN [d EXCEPT !.on = FALSE, !.scanning = FALSE, !.sent = 1,
                              !.starts = 0]
    ELSE [d EXCEPT !.sent = 1, !.starts = 0]

\* the part start_discovery and set_discoverable(True) share: StartDiscovery,
\* self.discovering = True, a timeout armed for _stop_discovery; ok:
\* adapter.StartDiscovery() did not raise
BeginDiscovery(d, ok) ==
    IF d.on THEN [d EXCEPT !.sent = 0, !.starts = 0]
    ELSE IF ~ok THEN [d EXCEPT !.sent = 0, !.starts = 1]
    ELSE [d EXCEPT !.on = TRUE, !.scanning = TRUE,
                   !.stopTimers = @ \cup {NextSourceId(d.stopTimers)},
                   !.session = NextSourceId(d.stopTimers),
                   !.sent = 0, !.starts = 1]

\* BluetoothManager.set_discoverable(discoverable)
SetDiscoverable(d, discoverable, ok) ==
    IF discoverable THEN BeginDiscovery(d, ok) ELSE StopDiscovery(d, ok)

\* the methods a BluetoothManager has for the routes to call
ManagerMethods ==
    {"get_devices", "start_discovery", "pair_device", "connect_device",
     "set_discoverable"}

\* the route calls manager.<method>(): a missing method raises
\* AttributeError, which the route answers with status 500
HasMethod(method) == method \in ManagerMethods

\* POST /bluetooth/discovery/start
StartDiscoveryPost(ok) ==
    /\ Cardinality(BeginDiscovery(discovery, ok).stopTimers) <= MaxTimers
    /\ discovery' = BeginDiscovery(discovery, ok)
    /\ btLast' = BtOp("start_discovery", "", "", HasMethod("start_discovery"),
                      FALSE)
    /\ UNCHANGED <<bluez, trustFile, devices, trusted_devices, timers,
                   dropped, autoFails, pairedOk, iter>>
    /\ UNCHANGED audioVars

\* POST /bluetooth/discovery/stop: calls manager.stop_discovery()
StopDiscoveryPost(ok) ==
    /\ discovery' = IF HasMethod("stop_discovery")
                    THEN StopDiscovery(discovery, ok)
                    ELSE [discovery EXCEPT !.sent = 0, !.starts = 0]
    /\ btLast' = BtOp("stop_discovery", "", "", HasMethod("stop_discovery"),
                      FALSE)
    /\ UNCHANGED <<bluez, trustFile, devices, trusted_devices, timers,
                   dropped, autoFails, pairedOk, iter>>
    /\ UNCHANGED audioVars

\* POST /bluetooth/discoverable and /bluetooth/discoverable/stop
SetDiscoverablePost(discoverable, ok) ==
    /\ Cardinality(SetDiscoverable(discovery, discoverable, ok).stopTimers)
           <= MaxTimers
    /\ discovery' = SetDiscoverable(discovery, discoverable, ok)
    /\ btLast' = BtOp("set_discoverable", "", "",
                      HasMethod("set_discoverable"), discoverable)
    /\ UNCHANGED <<bluez, trustFile, devices, trusted_devices, timers,
                   dropped, autoFails, pairedOk, iter>>
    /\ UNCHANGED audioVars

\* start_discovery, set_discoverable and _stop_discovery step by step, as two
\* threads run them: the handlers of the API on the event-loop thread (api),
\* the timeout callbacks on the GLib main-loop thread (loop).  A thread that
\* has read self.discovering is at "begin" or "stop"; one whose adapter call
\* has returned is at "begun" or "stopped" until it writes the flag.  The
\* adapter accepts StartDiscovery only while it is not scanning and
\* StopDiscovery only while it is; a refused call raises.

\* no thread has sent anything in this step
Quiet(d) == [d EXCEPT !.sent = 0, !.starts = 0]

ThreadStep(d, op) ==
    /\ discovery' = d
    /\ btLast' = BtOp(op, "", "", TRUE, FALSE)
    /\ UNCHANGED <<bluez, trustFile, devices, trusted_devices, timers,
                   dropped, autoFails, pairedOk, iter>>
    /\ UNCHANGED audioVars

\* start_discovery or set_discoverable(True) reads the flag
ApiBeginCheck ==
    /\ discovery.api = "idle"
    /\ Cardinality(discovery.stopTimers) < MaxTimers
    /\ ThreadStep([Quiet(discovery) EXCEPT
                      !.api = IF discovery.on THEN "idle" ELSE "begin"],
                  "api_begin_check")

\* adapter.StartDiscovery()
ApiBeginSend(ok) ==
    /\ discovery.api = "begin"
    /\ ThreadStep(IF ok /\ ~discovery.scanning
                  THEN [discovery EXCEPT !.scanning = TRUE, !.sent = 0,
                                         !.starts = 1, !.api = "begun"]
                  ELSE [discovery EXCEPT !.sent = 0, !.starts = 1,
                                         !.api = "idle"],
                  "api_begin_send")

\* self.discovering = True, then the timeout is armed
ApiBeginFlag ==
    /\ discovery.api = "begun"
    /\ ThreadStep([Quiet(discovery) EXCEPT
                      !.on = TRUE,
                      !.stopTimers = @ \cup {NextSourceId(discovery.stopTimers)},
                      !.session = NextSourceId(discovery.stopTimers),
                      !.api = "idle"],
                  "api_begin_flag")

\* set_discoverable(False) reads the flag, and _stop_discovery reads it again
ApiStopCheck ==
    /\ discovery.api = "idle"
    /\ ThreadStep([Quiet(discovery) EXCEPT
                      !.api = IF discovery.on THEN "stop" ELSE "idle"],
                  "api_stop_check")

\* adapter.StopDiscovery() on the thread th
StopSend(th, ok) ==
    IF ok /\ discovery.scanning
    THEN [discovery EXCEPT !.scanning = FALSE, !.sent = 1, !.starts = 0,
                           ![th] = "stopped"]
    ELSE [discovery EXCEPT !.sent = 1, !.starts = 0, ![th] = "idle"]

ApiStopSend(ok) ==
    /\ discovery.api = "stop"
    /\ ThreadStep(StopSend("api", ok), "api_stop_send")

\* self.discovering = False
ApiStopFlag ==
    /\ discovery.api = "stopped"
    /\ ThreadStep([Quiet(discovery) EXCEPT !.on = FALSE, !.api = "idle"],
                  "api_stop_flag")

\* the timeout t fires and _stop_discovery reads the flag
LoopStopCheck(t) ==
    /\ discovery.loop = "idle"
    /\ t \in discovery.stopTimers
    /\ ThreadStep([Quiet(discovery) EXCEPT
                      !.stopTimers = @ \ {t},
                      !.loop = IF discovery.on THEN "stop" ELSE "idle"],
                  "loop_stop_check")

LoopStopSend(ok) ==
    /\ discovery.loop = "stop"
    /\ ThreadStep(StopSend("loop", ok), "loop_stop_send")

LoopStopFlag ==
    /\ discovery.loop = "stopped"
    /\ ThreadStep([Quiet(discovery) EXCEPT !.on = FALSE, !.loop = "idle"],
                  "loop_stop_flag")

\* the timeout t armed by a start fires: GLib runs _stop_discovery, which
\* returns False, so the timeout is dropped
DiscoveryTimer(t, ok) ==
    /\ t \in discovery.stopTimers
    /\ discovery' = [StopDiscovery(discovery, ok) EXCEPT !.stopTimers = @ \ {t}]
    /\ btLast' = BtOp("discovery_timer", "", "", TRUE, TRUE)
    /\ UNCHANGED <<bluez, trustFile, devices, trusted_devices, timers,
                   dropped, autoFails, pairedOk, iter>>
    /\ UNCHANGED audioVars

\* BluetoothManager.__init__ has run: nothing is tracked, the trust store is
\* what the file held; BlueZ may already export the device
InitBluetooth ==
    /\ bluez \in [Paths -> BluezStates]
    /\ trustFile \in SUBSET Addrs
    /\ devices = EmptyMap
    /\ trusted_devices = LoadTrustedDevices(trustFile)
    /\ timers = [p \in Paths |-> 0]
    /\ btLast = BtOp("none", "", "", TRUE, FALSE)
    /\ dropped = {}
    /\ autoFails = [p \in Paths |-> 0]
    /\ pairedOk = {}
    /\ iter = NoIter
    /\ discovery = NoDiscovery

\* no Bluetooth device and no trusted address
NoBluetooth ==
    /\ bluez = [p \in Paths |-> Absent]
    /\ trustFile = {}
    /\ devices = EmptyMap
    /\ trusted_devices = {}
    /\ timers = [p \in Paths |-> 0]
    /\ btLast = BtOp("none", "", "", TRUE, FALSE)
    /\ dropped = {}
    /\ autoFails = [p \in Paths |-> 0]
    /\ pairedOk = {}
    /\ iter = NoIter
    /\ discovery = NoDiscovery

\* the source node PipeWire shows for the audio stream of the device at p
SourceOf(p) == "S1"

\* the stream of a connected device shows up as a source node
StreamAppear(p) ==
    /\ bluez[p].connected
    /\ SourceAppear(SourceOf(p))

\* the stream of a device whose link is down goes away
StreamDisappear(p) ==
    /\ ~bluez[p].connected
    /\ SourceDisappear(SourceOf(p))

----------------------------------------------------------------------------
\* what is common to the initial states: the graph holds at least one sink
\* node (the startup probe found an audio node), the manager is not built yet
InitCommon ==
    /\ nodes \in [Keys -> 0..MaxId]
    /\ \A a, b \in Keys : a # b /\ nodes[a] # 0 => nodes[a] # nodes[b]
    /\ PresentKeys # {}
    /\ links = {}
    /\ sinks = <<>>
    /\ device_states = EmptyMap
    /\ sources = EmptyMap
    /\ routing = EmptyMap
    /\ lastOp = Op("none", 0, "", 0, {}, TRUE, 0)
    /\ lastCmds = <<>>

\* Outputs: the sinks, their stored volume and mute, under churn of the sink
\* nodes; no source node exists.
InitOutputs ==
    /\ InitCommon
    /\ srcs = [s \in Sources |-> 0]
    /\ churn = ChurnOn
    /\ NoBluetooth

NextOutputs ==
    \/ \E k \in Keys, id \in Ids : NodeAppear(k, id)
    \/ \E k \in Keys : NodeDisappear(k)
    \/ \E seen \in SUBSET Keys : Construct(seen, {}, TRUE)
    \/ \E seen \in SUBSET Keys : GetDevices(seen, {}, TRUE)
    \/ \E d \in DevIds, v \in VolInputs, ok \in BOOLEAN :
            SetVolumePost(d, v, ok, {}, TRUE)
    \/ \E d \in DevIds, m \in BOOLEAN, ok \in BOOLEAN : MuteDevice(d, m, ok)

SpecOutputs == InitOutputs /\ [][NextOutputs]_vars

\* Routing: sources, the routing map and the physical links; the only volume
\* a caller sets is the default volume, and every source is found.

InitRouting ==
    /\ InitCommon
    /\ srcs \in [Sources -> {0, MaxId + 1}]
    /\ churn = ChurnOff
    /\ NoBluetooth

NextRouting ==
    \/ \E k \in Keys, id \in Ids : NodeAppear(k, id)
    \/ \E k \in Keys : NodeDisappear(k)
    \/ \E s \in Sources : SourceAppear(s)
    \/ \E s \in Sources : SourceDisappear(s)
    \/ \E s \in Sources, k \in Keys : ExternalLink(s, k)
    \/ \E seen \in SUBSET Keys, found \in SUBSET Sources, linksOk \in BOOLEAN :
            Construct(seen, found, linksOk)
    \/ \E seen \in SUBSET Keys, found \in SUBSET Sources, linksOk \in BOOLEAN :
            GetDevices(seen, found, linksOk)
    \/ \E d \in DevIds : SetVolumePost(d, DefaultVolume, TRUE, PresentSources, TRUE)
    \/ \E d \in DevIds, x \in SUBSET Keys, found \in SUBSET Sources :
            SetSourceRoutingPost(d, x, found, TRUE)

SpecRouting == InitRouting /\ [][NextRouting]_vars

\* Desired state: every operation that touches the stored volume and mute of
\* the sinks or the routing map, under churn of the sink and source nodes;
\* a node that appears takes the lowest free id, every listing is complete,
\* every command succeeds and the only volume a caller sets is the default.

InitDesired ==
    /\ InitCommon
    /\ srcs \in [Sources -> {0, MaxId + 1}]
    /\ churn = ChurnOff
    /\ NoBluetooth

NextDesired ==
    \/ \E k \in Keys : NodeAppearLowest(k)
    \/ \E k \in Keys : NodeDisappear(k)
    \/ \E s \in Sources : SourceAppear(s)
    \/ \E s \in Sources : SourceDisappear(s)
    \/ Construct(PresentKeys, PresentSources, TRUE)
    \/ GetDevices(PresentKeys, PresentSources, TRUE)
    \/ \E d \in DevIds :
            SetVolumePost(d, DefaultVolume, TRUE, PresentSources, TRUE)
    \/ \E d \in DevIds, m \in BOOLEAN : MuteDevice(d, m, TRUE)
    \/ \E d \in DevIds, x \in SUBSET Keys :
            SetSourceRoutingPost(d, x, PresentSources, TRUE)

SpecDesired == InitDesired /\ [][NextDesired]_vars

\* Applying desired state: the sink nodes stay, every listing is complete,
\* every source is found; callers set volumes and mutes, then a source appears.

ApplyVolumes == {40, 60}

InitApply ==
    /\ InitCommon
    /\ srcs = [s \in Sources |-> 0]
    /\ churn = ChurnOff
    /\ NoBluetooth

NextApply ==
    \/ \E s \in Sources : SourceAppear(s)
    \/ Construct(PresentKeys, PresentSources, TRUE)
    \/ GetDevices(PresentKeys, PresentSources, TRUE)
    \/ \E d \in DevIds, v \in ApplyVolumes, ok \in BOOLEAN :
            SetVolumePost(d, v, ok, PresentSources, TRUE)
    \/ \E d \in DevIds, m \in BOOLEAN, ok \in BOOLEAN : MuteDevice(d, m, ok)

SpecApply == InitApply /\ [][NextApply]_vars

\* Driver gain: _set_driver_volume called with n1, then with n2 > n1 sinks of
\* non-zero volume in self.sinks; nothing else runs.

MaxCount == 14

SinksOf(n) ==
    [i \in 1..n |-> [id |-> i, name |-> "K1", volume |-> DefaultVolume,
                     mute |-> FALSE]]

InitGain ==
    /\ nodes = [k \in Keys |-> 0]
    /\ srcs = [s \in Sources |-> 0]
    /\ links = {}
    /\ sinks = <<>>
    /\ device_states = EmptyMap
    /\ sources = EmptyMap
    /\ routing = EmptyMap
    /\ \E n1, n2 \in 0..MaxCount :
           /\ n1 < n2
           /\ lastOp = Op("counts", n1, "", n2, {}, TRUE, 0)
    /\ lastCmds = <<>>
    /\ churn = ChurnOff
    /\ NoBluetooth

SetDriverVolumeCalls ==
    /\ lastOp.op = "counts"
    /\ lastCmds' = SetDriverVolume(1, SinksOf(lastOp.dev))
                       \o SetDriverVolume(1, SinksOf(lastOp.arg))
    /\ lastOp' = [lastOp EXCEPT !.op = "set_driver_volume"]
    /\ UNCHANGED <<nodes, srcs, links, sinks, device_states, sources, routing,
                   churn>>
    /\ UNCHANGED btVars

NextGain == SetDriverVolumeCalls

SpecGain == InitGain /\ [][NextGain]_vars

\* Classification: _determine_device_type applied to the properties of one
\* sink.  A property is the set of the markers its text contains, written
\* as the text has them; the function lowers the text before it looks.

ApiMarkers == {"api:alsa", "api:bluetooth"}

DescriptionMarkers == {"desc:usb", "desc:USB"}

FactoryMarkers == {"factory:usb", "factory:bluez"}

\* str.lower on a marker
Lower(m) == IF m = "desc:USB" THEN "desc:usb" ELSE m

\* the members of the DeviceType enum
DeviceTypeMembers == {"builtin", "usb"}

\* DeviceType.<member>: a missing member raises AttributeError, which the
\* function catches and answers with DeviceType.BUILTIN
DeviceTypeOf(member) ==
    IF member \in DeviceTypeMembers THEN member ELSE "builtin"

DetermineDeviceType(props) ==
    LET low == {Lower(m) : m \in props}
    IN  IF "api:alsa" \in low /\ ("desc:usb" \in low \/ "factory:usb" \in low)
        THEN DeviceTypeOf("usb")
        ELSE IF "api:bluetooth" \in low \/ "factory:bluez" \in low
        THEN DeviceTypeOf("bluetooth")
        ELSE DeviceTypeOf("builtin")

InitTypes ==
    /\ nodes = [k \in Keys |-> 0]
    /\ srcs = [s \in Sources |-> 0]
    /\ links = {}
    /\ sinks = <<>>
    /\ device_states = EmptyMap
    /\ sources = EmptyMap
    /\ routing = EmptyMap
    /\ \E api \in SUBSET ApiMarkers, description \in SUBSET DescriptionMarkers,
          factory \in SUBSET FactoryMarkers :
           lastOp = Op("props", 0, "", 0, api \cup description \cup factory,
                       TRUE, 0)
    /\ lastCmds = <<>>
    /\ churn = ChurnOff
    /\ NoBluetooth

DetermineDeviceTypeCall ==
    /\ lastOp.op = "props"
    /\ lastOp' = [lastOp EXCEPT !.op = "determine_device_type",
                                 !.key = DetermineDeviceType(lastOp.names)]
    /\ UNCHANGED <<nodes, srcs, links, sinks, device_states, sources, routing,
                   lastCmds, churn>>
    /\ UNCHANGED btVars

NextTypes == DetermineDeviceTypeCall

SpecTypes == InitTypes /\ [][NextTypes]_vars

\* Connections: the Bluetooth manager and the audio manager side by side.
\* The GLib main loop runs the reconnect timers and PipeWire shows the stream
\* of a connected device, so both are fair; a pass runs only when a caller
\* asks for the devices, and nothing makes a caller ask.

InitConnect ==
    /\ InitCommon
    /\ srcs = [s \in Sources |-> 0]
    /\ churn = ChurnOff
    /\ InitBluetooth

NextConnect ==
    \/ Construct(PresentKeys, PresentSources, TRUE)
    \/ GetDevices(PresentKeys, PresentSources, TRUE)
    \/ \E p \in Paths, c, pd, t, ok, trustOk \in BOOLEAN :
            InterfacesAdded(p, c, pd, t, ok, trustOk)
    \/ \E p \in Paths, trustOk \in BOOLEAN : DeviceConnected(p, trustOk)
    \/ \E p \in Paths : DeviceDisconnected(p)
    \/ \E p \in Paths, ok, trustOk \in BOOLEAN : ReconnectTimer(p, ok, trustOk)
    \/ \E p \in Paths, ok, trustOk \in BOOLEAN : ConnectDevicePost(p, ok, trustOk)
    \/ \E p \in Paths : StreamAppear(p)
    \/ \E p \in Paths : StreamDisappear(p)

SpecConnect ==
    /\ InitConnect
    /\ [][NextConnect]_vars
    /\ WF_vars(\E p \in Paths, ok, trustOk \in BOOLEAN :
                   ReconnectTimer(p, ok, trustOk))
    /\ WF_vars(\E p \in Paths : StreamAppear(p))

\* Combined sink: _create_combined_sink called on a manager that was built
\* over some of the sink nodes, while the graph holds some links.

SinksFor(seen) ==
    LET ks == SortById(seen, nodes)
    IN  [i \in 1..Len(ks) |-> [id |-> nodes[ks[i]], name |-> ks[i],
                               volume |-> DefaultVolume, mute |-> FALSE]]

InitCombined ==
    /\ nodes \in [Keys -> 0..MaxId]
    /\ \A a, b \in Keys : a # b /\ nodes[a] # 0 => nodes[a] # nodes[b]
    /\ srcs \in [Sources -> {0, MaxId + 1}]
    /\ links \in SUBSET {<<srcs[s], nodes[k]>> :
                            s \in PresentSources, k \in PresentKeys}
    /\ \E seen \in SUBSET PresentKeys :
           /\ sinks = SinksFor(seen)
           /\ device_states =
                  [k \in seen |-> [volume |-> DefaultVolume, muted |-> FALSE]]
           /\ lastOp = Op("init", 0, "", 0, seen, TRUE, 0)
    /\ sources = EmptyMap
    /\ routing = EmptyMap
    /\ lastCmds = <<>>
    /\ churn = ChurnOff
    /\ NoBluetooth

CreateCombinedSinkCall ==
    /\ lastOp.op = "init"
    /\ lastCmds' = CreateCombinedSink(sinks)
    /\ lastOp' = Op("create_combined_sink", 0, "", 0, {}, TRUE, 0)
    /\ UNCHANGED <<nodes, srcs, links, sinks, device_states, sources, routing,
                   churn>>
    /\ UNCHANGED btVars

NextCombined == CreateCombinedSinkCall

SpecCombined == InitCombined /\ [][NextCombined]_vars

\* Startup probe: the loop of AudioManager.__init__ that runs pw-dump until
\* it lists an audio node.  lastOp.dev is retry_count, lastOp.arg the seconds
\* slept before the next attempt.

max_retries == 3

RetrySleep == 2

\* what one pw-dump attempt can come to: audio nodes listed; a failure, an
\* unparsable output or no audio node; a timeout
ProbeOutcomes == {"found", "none", "timeout"}

InitProbe ==
    /\ nodes \in [Keys -> 0..MaxId]
    /\ \A a, b \in Keys : a # b /\ nodes[a] # 0 => nodes[a] # nodes[b]
    /\ srcs \in [Sources -> {0, MaxId + 1}]
    /\ links = {}
    /\ sinks = <<>>
    /\ device_states = EmptyMap
    /\ sources = EmptyMap
    /\ routing = EmptyMap
    /\ lastOp = Op("probe", 0, "", 0, {}, TRUE, 0)
    /\ lastCmds = <<Cmd("restart", 0, 0)>>
    /\ churn = ChurnOff
    /\ NoBluetooth

\* a round of a loop that runs while retry_count <= max_retries
ProbeAttemptOneMore(outcome) ==
    /\ lastOp.op \in {"probe", "retry"}
    /\ lastOp.dev <= max_retries
    /\ outcome = "found" => PresentKeys \cup PresentSources # {}
    /\ lastOp' =
          IF outcome = "found"
          THEN Op("found", lastOp.dev, outcome, 0, {}, TRUE, 0)
          ELSE Op("retry", lastOp.dev + 1, outcome,
                  IF lastOp.dev + 1 < max_retries THEN RetrySleep ELSE 0,
                  {}, FALSE, 0)
    /\ lastCmds' = <<>>
    /\ UNCHANGED <<nodes, srcs, links, sinks, device_states, sources, routing,
                   churn>>
    /\ UNCHANGED btVars

\* one round of the while loop
ProbeAttempt(outcome) ==
    /\ lastOp.op \in {"probe", "retry"}
    /\ lastOp.dev < max_retries
    /\ outcome = "found" => PresentKeys \cup PresentSources # {}
    /\ lastOp' =
          IF outcome = "found"
          THEN Op("found", lastOp.dev, outcome, 0, {}, TRUE, 0)
          ELSE Op("retry", lastOp.dev + 1, outcome,
                  IF lastOp.dev + 1 < max_retries THEN RetrySleep ELSE 0,
                  {}, FALSE, 0)
    /\ lastCmds' = <<>>
    /\ UNCHANGED <<nodes, srcs, links, sinks, device_states, sources, routing,
                   churn>>
    /\ UNCHANGED btVars

\* after the loop: retry_count == max_retries raises, and the constructor
\* fails with it
ProbeGiveUp ==
    /\ lastOp.op = "retry"
    /\ lastOp.dev = max_retries
    /\ lastOp' = Op("failed", lastOp.dev, "", 0, {}, FALSE, 0)
    /\ lastCmds' = <<>>
    /\ UNCHANGED <<nodes, srcs, links, sinks, device_states, sources, routing,
                   churn>>
    /\ UNCHANGED btVars

NextProbe ==
    \/ \E outcome \in ProbeOutcomes : ProbeAttempt(outcome)
    \/ ProbeGiveUp

SpecProbe == InitProbe /\ [][NextProbe]_vars

\* Bluetooth: one device, its BlueZ object, the trust store and the reconnect
\* timers; the audio graph is empty and the AudioManager is not built.

InitSources ==
    /\ nodes = [k \in Keys |-> 0]
    /\ srcs = [s \in Sources |-> 0]
    /\ links = {}
    /\ sinks = <<>>
    /\ device_states = EmptyMap
    /\ sources = EmptyMap
    /\ routing = EmptyMap
    /\ lastOp = Op("none", 0, "", 0, {}, TRUE, 0)
    /\ lastCmds = <<>>
    /\ churn = ChurnOff
    /\ InitBluetooth

NextSources ==
    \/ \E p \in Paths, c, pd, t, ok, trustOk \in BOOLEAN :
            InterfacesAdded(p, c, pd, t, ok, trustOk)
    \/ \E p \in Paths : InterfacesRemoved(p)
    \/ \E p \in Paths, trustOk \in BOOLEAN : DeviceConnected(p, trustOk)
    \/ \E p \in Paths : DeviceDisconnected(p)
    \/ \E p \in Paths, ok, trustOk \in BOOLEAN : ReconnectTimer(p, ok, trustOk)
    \/ \E p \in Paths, ok \in BOOLEAN : PairDevicePost(p, ok)
    \/ \E p \in Paths, ok, trustOk \in BOOLEAN : ConnectDevicePost(p, ok, trustOk)
    \/ \E p \in Paths, uuid \in Uuids : AuthorizeServiceCall(p, uuid)

\* Readers: the signal handlers of the GLib thread against the readers of
\* the API thread.

InitReaders ==
    /\ nodes = [k \in Keys |-> 0]
    /\ srcs = [s \in Sources |-> 0]
    /\ links = {}
    /\ sinks = <<>>
    /\ device_states = EmptyMap
    /\ sources = EmptyMap
    /\ routing = EmptyMap
    /\ lastOp = Op("none", 0, "", 0, {}, TRUE, 0)
    /\ lastCmds = <<>>
    /\ churn = ChurnOff
    /\ InitBluetooth

NextReaders ==
    \/ \E p \in Paths, c, pd, t, ok, trustOk \in BOOLEAN :
            InterfacesAdded(p, c, pd, t, ok, trustOk)
    \/ \E p \in Paths : InterfacesRemoved(p)
    \/ \E p \in Paths, trustOk \in BOOLEAN : DeviceConnected(p, trustOk)
    \/ \E p \in Paths : DeviceDisconnected(p)
    \/ \E r \in Readers : ReaderBegin(r)
    \/ ReaderNext
    \/ ReaderRaise

SpecReaders == InitReaders /\ [][NextReaders]_vars

\* Discovery: the discovery routes and the stop timeouts, beside the devices
\* BlueZ exports.

InitDiscovery == InitReaders

NextDiscovery ==
    \/ \E ok \in BOOLEAN : StartDiscoveryPost(ok)
    \/ \E ok \in BOOLEAN : StopDiscoveryPost(ok)
    \/ \E d, ok \in BOOLEAN : SetDiscoverablePost(d, ok)
    \/ \E t \in 1..MaxTimers, ok \in BOOLEAN : DiscoveryTimer(t, ok)
    \/ \E p \in Paths, c, pd, t, ok, trustOk \in BOOLEAN :
            InterfacesAdded(p, c, pd, t, ok, trustOk)
    \/ \E p \in Paths : InterfacesRemoved(p)

SpecDiscovery == InitDiscovery /\ [][NextDiscovery]_vars

\* Threads: the discovery methods of the API thread interleaved, statement
\* by statement, with the timeout callbacks of the main-loop thread.

InitThreads == InitReaders

NextThreads ==
    \/ ApiBeginCheck
    \/ \E ok \in BOOLEAN : ApiBeginSend(ok)
    \/ ApiBeginFlag
    \/ ApiStopCheck
    \/ \E ok \in BOOLEAN : ApiStopSend(ok)
    \/ ApiStopFlag
    \/ \E t \in 1..MaxTimers : LoopStopCheck(t)
    \/ \E ok \in BOOLEAN : LoopStopSend(ok)
    \/ LoopStopFlag

SpecThreads == InitThreads /\ [][NextThreads]_vars

SpecSources == InitSources /\ [][NextSources]_vars

----------------------------------------------------------------------------
\* Claims about the outputs (SpecOutputs).

\* the last handler issued its property-set command and the backend refused it
BackendRefused == ~lastOp.ret /\ lastCmds # <<>>

C2_PersistenceAcrossChurn ==
    \A k \in Keys :
        churn[k].stage = "reconciled" =>
            /\ device_states[k].volume = churn[k].volume
            /\ device_states[k].muted = churn[k].muted

----------------------------------------------------------------------------
\* Claims about routing and passes (SpecRouting).

\* the sinks a source is physically linked to
LinkedKeys(s) == {k \in PresentKeys : <<srcs[s], nodes[k]>> \in links}

\* the sink cache lists exactly the sink nodes of the graph, under their ids
CacheCurrent ==
    /\ SinkNames(sinks) = PresentKeys
    /\ \A i \in 1..Len(sinks) : nodes[sinks[i].name] = sinks[i].id

\* C3: after the pass that applies a routing, the physical links of the source
\* are exactly its desired routing: missing links created, others destroyed.
C3_RoutingConvergence ==
    (/\ lastOp.op = "set_source_routing" /\ lastOp.ret
     /\ CacheCurrent /\ lastOp.names \subseteq PresentKeys) =>
        LinkedKeys(lastOp.key) = lastOp.names

\* C4: after a successful set_source_routing(source, X) the routing stored for
\* the source is X, and no handler but set_source_routing changes a stored
\* routing entry.
C4_RoutingRoundTrip ==
    [][ /\ (lastOp'.op = "set_source_routing" /\ lastOp'.ret) =>
               routing'[lastOp'.key] = lastOp'.names
        /\ (lastOp'.op # "set_source_routing") =>
               \A s \in DOMAIN routing : routing'[s] = routing[s]
      ]_vars

C10_ScanReadOnly ==
    lastOp.op = "get_devices" => lastCmds = <<>>

----------------------------------------------------------------------------
\* Claims about the Bluetooth sources (SpecSources).

\* the service UUID prefixes of the audio-profile family: A2DP source, A2DP
\* sink, A2DP
AudioUuids == {"0000110a", "0000110b", "0000110d"}

\* C6: the agent accepts a service authorization exactly when the requested
\* UUID belongs to the audio-profile family; any other UUID is rejected.
C6_AgentAcceptsOnlyAudio ==
    btLast.op = "authorize" => (btLast.ret <=> btLast.uuid \in AudioUuids)

\* C7: a device whose link has dropped never sees more than maxRetries
\* failed automatic Connect attempts in a row: after maxRetries of them
\* nothing is attempted until a caller asks for a connect.
C7_ReconnectBound ==
    \A p \in Paths : autoFails[p] <= MaxRetries

\* C8: a disconnect of a device whose address is in the trust store arms one
\* timer, and a timer that fires issues one Connect() and is gone, whether
\* the Connect() succeeded or failed.
C8_OneAttemptPerDisconnect ==
    [][ \A p \in Paths :
          /\ (btLast'.op = "disconnected" /\ btLast'.path = p
                /\ Addr(p) \in trusted_devices) => timers'[p] = timers[p] + 1
          /\ (btLast'.op = "timer" /\ btLast'.path = p) =>
                timers'[p] = timers[p] - 1
      ]_vars

\* C9: the address of every device that has been paired successfully is in
\* the trust store and in its file.
C9_TrustOnFirstUse ==
    \A p \in pairedOk :
        Addr(p) \in trusted_devices /\ Addr(p) \in trustFile

----------------------------------------------------------------------------
\* Claims about desired state and defaults (SpecOutputs).

\* C11: after a pass, every listed output that had a stored state before the
\* pass holds, in the backend, the stored volume and the stored mute, whatever
\* it held before the pass.
C11_DesiredWinsOverDrift ==
    [][ lastOp'.op = "get_devices" =>
          \A i \in 1..Len(sinks') :
              sinks'[i].name \in DOMAIN device_states =>
                  \A b \in BackendStates :
                      LET a == BackendAfter(lastCmds', sinks'[i].id, b)
                          d == device_states'[sinks'[i].name]
                      IN  a.volume = d.volume /\ a.mute = d.muted
      ]_vars

\* C12: a sink name that gets a stored state for the first time gets volume 5
\* and muted false, at construction and in a pass; nothing the backend
\* reports enters the stored state.
C12_FirstSeenDefaults ==
    [][ \A k \in Keys :
          (k \notin DOMAIN device_states /\ k \in DOMAIN device_states') =>
              /\ lastOp'.op \in {"init", "get_devices"}
              /\ k \in lastOp'.names
              /\ device_states'[k] = [volume |-> DefaultVolume, muted |-> FALSE]
      ]_vars

\* a pass stored the default state for a sink it saw for the first time, next
\* to a sink whose volume a caller had set
C12_Witness ==
    /\ lastOp.op = "get_devices" /\ lastOp.names # {}
    /\ \A k \in lastOp.names :
           device_states[k] = [volume |-> DefaultVolume, muted |-> FALSE]
    /\ \E k \in DOMAIN device_states : device_states[k].volume = 40

----------------------------------------------------------------------------
\* Claims about the passes and the routing map (SpecRouting).

\* C13: a pass gives a source it observes and that has no routing entry the
\* set of all known sinks, and leaves the entry of a source that has one as
\* it was.
C13_RoutingEntryHonored ==
    [][ lastOp'.op \in {"init", "get_devices"} =>
          \A s \in DOMAIN sources' :
              IF s \in DOMAIN routing
              THEN routing'[s] = routing[s]
              ELSE routing'[s] = SinkNames(sinks')
      ]_vars

----------------------------------------------------------------------------
\* Claims about applying desired state (SpecApply).

\* the number of commands of one kind in a sequence of commands
Count(cmds, c) == Cardinality({i \in 1..Len(cmds) : cmds[i].cmd = c})

\* the links of the graph that start at source s
LinksOf(lk, s) == {l \in lk : l[1] = srcs[s]}

\* every sink of a sink list linked to source s, and nothing else
AllLinked(sk, s) == {<<srcs[s], sk[i].id>> : i \in 1..Len(sk)}

----------------------------------------------------------------------------
\* Claims about the driver gain (SpecGain).

\* C15, as stated: for counts n1 < n2 the compensation factor satisfies
\* c(n1) <= c(n2) <= 2.0, c(n) = 1.0 for n <= 1, and the gain written never
\* exceeds 2.0.
C15_CompensationCapped ==
    lastOp.op = "set_driver_volume" =>
        /\ Compensation(lastOp.dev) <= Compensation(lastOp.arg)
        /\ Compensation(lastOp.arg) <= CapMilli
        /\ \A n \in {lastOp.dev, lastOp.arg} : n <= 1 => Compensation(n) = 1000
        /\ lastCmds[2].arg <= CapMilli /\ lastCmds[4].arg <= CapMilli

\* C15, amended: for counts n1 < n2 the compensation factor is monotone,
\* c(n1) <= c(n2), with c(n) = 1.0 for n <= 1, and is itself unbounded
\* (c(n) > 2.0 from n = 4 on); the gain written to the driver is monotone in
\* the count and never exceeds 2.0.
C15_GainMonotoneCapped ==
    lastOp.op = "set_driver_volume" =>
        /\ Compensation(lastOp.dev) <= Compensation(lastOp.arg)
        /\ \A n \in {lastOp.dev, lastOp.arg} :
               /\ n <= 1 => Compensation(n) = 1000
               /\ n >= 4 => Compensation(n) > CapMilli
        /\ lastCmds[2].cmd = "gain" /\ lastCmds[4].cmd = "gain"
        /\ lastCmds[2].arg <= lastCmds[4].arg
        /\ lastCmds[4].arg <= CapMilli

\* the gain was written for four sinks or more, and sits at the cap
C15_Witness ==
    /\ lastOp.op = "set_driver_volume"
    /\ lastOp.arg >= 4
    /\ lastCmds[4].arg = CapMilli

----------------------------------------------------------------------------
\* Claims about the driver gain during the handlers (SpecOutputs).

\* the gain last written to node id by a sequence of commands, -1 if none
RECURSIVE LastGain(_, _)
LastGain(cmds, id) ==
    IF cmds = <<>> THEN -1
    ELSE LET c == cmds[Len(cmds)]
         IN  IF c.cmd = "gain" /\ c.id = id THEN c.arg
             ELSE LastGain(SubSeq(cmds, 1, Len(cmds) - 1), id)

\* C16: when a handler changes the number of active outputs, it has, on
\* completion, written to every current output the driver gain computed
\* from the final count.
C16_GainFromFinalCount ==
    [][ ActiveSinks(sinks') # ActiveSinks(sinks) =>
            \A i \in 1..Len(sinks') :
                LastGain(lastCmds', sinks'[i].id) =
                    CompensatedVolume(ActiveSinks(sinks'))
      ]_vars

----------------------------------------------------------------------------
\* Claims about the classification of a sink (SpecTypes).

\* C17: a sink with a bluetooth marker (device.api contains "bluetooth" or
\* factory.name contains "bluez") is classified bluetooth, also when it
\* carries usb markers; one with usb markers and no bluetooth marker is usb;
\* every other sink is builtin.
C17_BluetoothFirst ==
    lastOp.op = "determine_device_type" =>
        LET low == {Lower(m) : m \in lastOp.names}
            bt  == "api:bluetooth" \in low \/ "factory:bluez" \in low
            usb == "api:alsa" \in low
                       /\ ("desc:usb" \in low \/ "factory:usb" \in low)
        IN  lastOp.key = IF bt THEN "bluetooth"
                         ELSE IF usb THEN "usb" ELSE "builtin"

----------------------------------------------------------------------------
\* Claims about a pass over a failing backend (SpecRouting).

\* C18: a pass whose node listing fails or returns nothing while sink nodes
\* exist (the passes that end with an empty sink list) keeps the inventory
\* it had, issues no command to the backend and destroys no link.
C18_KeepsLastInventory ==
    [][ (/\ lastOp'.op = "get_devices" /\ PresentKeys # {}
         /\ sinks # <<>> /\ sinks' = <<>>) =>
            /\ sinks' = sinks
            /\ lastCmds' = <<>>
            /\ links \subseteq links'
      ]_vars

----------------------------------------------------------------------------
\* Claims about failed commands and unknown ids (SpecOutputs).

\* C19: a pass never reads the result of a command, so any of its volume
\* commands may have failed.  Every listed sink still gets its volume
\* command, in this pass and in the next, and a sink that had a stored state
\* keeps it: the pass stores for it no value that no command carried.
C19_FailedCommandIsolated ==
    [][ lastOp'.op = "get_devices" =>
            /\ \A i \in 1..Len(sinks') :
                   \E j \in 1..Len(lastCmds') :
                       lastCmds'[j] = Cmd("volume", sinks'[i].id,
                                          device_states'[sinks'[i].name].volume)
            /\ \A k \in SinkNames(sinks') \cap DOMAIN device_states :
                   device_states'[k] = device_states[k]
      ]_vars


\* C20: a request that addresses an id outside the inventory (set volume
\* with a volume in range, mute, unmute, set routing) is answered 404, changes
\* no stored state and issues no command to the backend.
C20_UnknownIdNotFound ==
    [][ (/\ lastOp'.op \in {"set_volume", "set_mute", "set_source_routing"}
         /\ lastOp'.key = ""
         /\ lastOp'.arg \in 0..100) =>
            /\ lastOp'.status = 404
            /\ lastCmds' = <<>>
            /\ device_states' = device_states
            /\ routing' = routing
      ]_vars

----------------------------------------------------------------------------
\* Claims about the lifetime of desired state (SpecDesired).

\* C21: a sink name that has a stored state keeps one, and a source name
\* that has a routing entry keeps one, across every step: a pass, a set of
\* volume, mute or routing, a node that goes away.
C21_DesiredStateKept ==
    [][ /\ DOMAIN device_states \subseteq DOMAIN device_states'
        /\ DOMAIN routing \subseteq DOMAIN routing'
      ]_vars

\* a pass has run while a sink with a stored state and a source with a
\* routing entry were both gone from the graph, and both entries are there
C21_Witness ==
    /\ lastOp.op = "get_devices"
    /\ \E k \in DOMAIN device_states : nodes[k] = 0
    /\ \E s \in DOMAIN routing : srcs[s] = 0

----------------------------------------------------------------------------
\* Claims about the sources and the routing map (SpecRouting).

\* C22: once the manager is built, every source it tracks in self.sources
\* has a routing entry, and so has every source a get_sources call made now
\* would return; an entry created for a source not seen before is the set
\* of the sinks of that moment.
C22_EverySourceRouted ==
    [][ constructed' =>
            /\ DOMAIN sources' \subseteq DOMAIN routing'
            /\ DOMAIN GetSources(PresentSources)' \subseteq DOMAIN routing'
            /\ \A s \in DOMAIN routing' \ DOMAIN routing :
                   routing'[s] = SinkNames(sinks')
      ]_vars

----------------------------------------------------------------------------
\* Claims about Bluetooth connections and the routing (SpecConnect).

\* the last Bluetooth step connected the device at p: an automatic connect
\* of a known device, a reconnect by timer, or connect_device
ConnectionMade(p) ==
    /\ btLast.path = p /\ btLast.ret
    /\ btLast.op \in {"added", "timer", "connect"}
    /\ bluez[p].connected

\* the manager tracks the source of p and every sink it knows is linked to it
SourceLinked(p) ==
    /\ SourceOf(p) \in DOMAIN sources
    /\ \A i \in 1..Len(sinks) : <<srcs[SourceOf(p)], sinks[i].id>> \in links

\* C23: once the audio manager is built, a successful connection of a
\* Bluetooth source is eventually followed by a pass that links the source to
\* its outputs (unless the link drops first).
C23_ConnectionReconciled ==
    \A p \in Paths :
        [](ConnectionMade(p) /\ constructed =>
               <>(SourceLinked(p) \/ ~bluez[p].connected))

----------------------------------------------------------------------------
\* Claims about the combined sink.

\* C24 (SpecOutputs): a pass that changes the membership of the sink list
\* and ends with two sinks or more leaves the backend with a combined sink
\* over exactly those sinks, whatever combined sink it held before.
C24_CombinedFollowsMembership ==
    [][ (/\ lastOp'.op \in {"init", "get_devices"}
         /\ SinkNames(sinks') # SinkNames(sinks)
         /\ Len(sinks') >= 2) =>
            \A members \in SUBSET Ids :
                CombinedAfter(lastCmds', members) = SinkIds(sinks')
      ]_vars


\* C25 (SpecCombined): with fewer than two sinks _create_combined_sink
\* destroys the combined sink the backend held, whatever it was, creates
\* none, returns without an error, and leaves every link in place.
C25_CombinedBestEffort ==
    [][ (lastOp'.op = "create_combined_sink" /\ Len(sinks') < 2) =>
            /\ \A members \in SUBSET Ids : CombinedAfter(lastCmds', members) = {}
            /\ \A j \in 1..Len(lastCmds') :
                   lastCmds'[j].cmd \notin {"create_combined", "link", "unlink_all"}
            /\ lastOp'.ret
            /\ links' = links
      ]_vars

\* the call was made with one sink, which a source is linked to
C25_Witness ==
    /\ lastOp.op = "create_combined_sink"
    /\ Len(sinks) = 1
    /\ \E l \in links : l[2] = sinks[1].id
    /\ lastCmds = <<Cmd("destroy_combined", 0, 0)>>

----------------------------------------------------------------------------
\* Claims about the threads of the Bluetooth manager (SpecReaders).

\* C26: while a reader of the API thread iterates over self.devices, no
\* step adds an entry to the map or deletes one, and the iteration never
\* fails on a map that changed under it.
C26_NoMutationWhileIterating ==
    [][ /\ iter.reader # "" => DOMAIN devices' = DOMAIN devices
        /\ ~iter'.err
      ]_vars

----------------------------------------------------------------------------
\* Claims about discovery (SpecDiscovery).

\* C27: a stop request made through POST /bluetooth/discovery/stop succeeds;
\* with no session in progress it sends nothing to the adapter and changes
\* nothing, during a session it sends exactly one StopDiscovery and the
\* session is over.
C27_StopDiscoveryIdempotent ==
    [][ btLast'.op = "stop_discovery" =>
            /\ btLast'.ret
            /\ IF discovery.on
               THEN discovery'.sent = 1 /\ ~discovery'.on
               ELSE discovery'.sent = 0 /\ ~discovery'.on
      ]_vars

----------------------------------------------------------------------------
\* Claims about the reconnect timers and removed devices (SpecSources).

\* C28: the removal of a device cancels the reconnect timers its disconnect
\* armed, so no timer issues a Connect() for a device BlueZ has removed.
C28_RemovalCancelsTimer ==
    [][ \A p \in Paths :
          /\ (btLast'.op = "removed" /\ btLast'.path = p) => timers'[p] = 0
          /\ (btLast'.op = "timer" /\ btLast'.path = p) => bluez[p].present
      ]_vars

----------------------------------------------------------------------------
\* Claims about the startup probe (SpecProbe).

\* C29: while the scan of the inventory keeps failing, the delay before the
\* next attempt doubles from one failure to the next, and the scan is never
\* given up.
C29_ExponentialBackoff ==
    [][ /\ (lastOp.op = "retry" /\ lastOp'.op = "retry") =>
               lastOp'.arg = 2 * lastOp.arg
        /\ lastOp'.op # "failed"
      ]_vars

----------------------------------------------------------------------------
\* Claims about the mute flag across passes (SpecOutputs).

\* the mute get_devices reports for the sink named k: node.mute of its
\* entry in a sink list
ReportedMute(sk, k) == \E i \in 1..Len(sk) : sk[i].name = k /\ sk[i].mute

\* C30: a pass flips neither the stored mute nor the mute get_devices
\* reports for a sink that was listed before the pass and is listed by it,
\* so both stay at the value of the last successful set_mute.
C30_MuteSurvivesPasses ==
    [][ lastOp'.op = "get_devices" =>
            \A k \in SinkNames(sinks) \cap SinkNames(sinks') :
                /\ k \in DOMAIN device_states =>
                       device_states'[k].muted = device_states[k].muted
                /\ ReportedMute(sinks', k) = ReportedMute(sinks, k)
      ]_vars


----------------------------------------------------------------------------
\* Claims about failed and successful sets of a volume or a mute (SpecApply).

\* C31: a set_volume or set_mute that returns False (index outside the sink
\* list, or the property-set command failed) leaves the stored states, the
\* cached sink properties and the routing map as they were, and for an index
\* outside the list issues no command at all.
C31_FailedSetChangesNothing ==
    [][ (lastOp'.op \in {"set_volume", "set_mute"} /\ ~lastOp'.ret) =>
            /\ device_states' = device_states
            /\ sinks' = sinks
            /\ routing' = routing
            /\ ~(lastOp'.dev < Len(sinks)) => lastCmds' = <<>>
      ]_vars

\* a mute command failed for a listed sink whose stored mute differs from the
\* one asked for
C31_Witness ==
    /\ lastOp.op = "set_mute" /\ ~lastOp.ret
    /\ lastOp.dev < Len(sinks)
    /\ Len(lastCmds) = 1
    /\ lastOp.key \in DOMAIN device_states
    /\ device_states[lastOp.key].muted # (lastOp.arg = 1)


\* C32: a successful set_volume changes only the stored volume of the sink
\* it addresses, a successful set_mute only its stored mute: the other stored
\* field, the stored state of every other sink and the routing entry of every
\* source stay as they were.
C32_SettersChangeOneField ==
    [][ /\ (lastOp'.op = "set_volume" /\ lastOp'.ret) =>
               /\ device_states' =
                      [device_states EXCEPT ![lastOp'.key].volume = lastOp'.arg]
               /\ \A s \in DOMAIN routing :
                      s \in DOMAIN routing' /\ routing'[s] = routing[s]
        /\ (lastOp'.op = "set_mute" /\ lastOp'.ret) =>
               /\ device_states' =
                      [device_states EXCEPT ![lastOp'.key].muted = (lastOp'.arg = 1)]
               /\ routing' = routing
      ]_vars


----------------------------------------------------------------------------
\* Claims about the stored volumes and the backend (SpecOutputs).

\* C33: every volume stored in device_states is an integer from 0 to 100,
\* whatever volumes the callers of set_volume ask for and whatever set_mute
\* calls and passes run.
C33_StoredVolumeInRange ==
    \A k \in DOMAIN device_states : device_states[k].volume \in 0..100

\* a volume of 101 was asked for a listed sink whose stored volume is the 40
\* of an earlier call, and was refused
C33_Witness ==
    /\ lastOp.op = "set_volume" /\ lastOp.arg = 101 /\ ~lastOp.ret
    /\ lastOp.key \in DOMAIN device_states
    /\ device_states[lastOp.key].volume = 40


\* C34: once construction or a pass has run with every command succeeding,
\* each listed sink holds, in the backend, the volume stored for it, whatever
\* it held before; a sink first seen at construction has had the default
\* volume pushed to it.
C34_BackendHoldsStoredVolume ==
    [][ lastOp'.op \in {"init", "get_devices"} =>
          \A i \in 1..Len(sinks') :
              \A b \in BackendStates :
                  BackendAfter(lastCmds', sinks'[i].id, b).volume =
                      device_states'[sinks'[i].name].volume
      ]_vars


----------------------------------------------------------------------------
\* Claims about automatic connections and discovery (SpecSources,
\* SpecDiscovery).

\* C35: Connect() is called without a request only for a device whose
\* address is in the trust store.  When a device is added it is called iff
\* the address is trusted and the device is not connected; when a link drops
\* a reconnect timer is armed iff the address is trusted; a timer is never
\* armed, and never fires, for an untrusted address.
C35_AutoConnectOnlyTrusted ==
    [][ \A p \in Paths :
          /\ (~bluez[p].present /\ bluez'[p].present) =>
                 /\ btLast'.op = "added"
                 /\ btLast'.auto => Addr(p) \in trusted_devices
                 /\ ~btLast'.auto =>
                        Addr(p) \notin trusted_devices \/ bluez'[p].connected
          /\ (bluez[p].connected /\ bluez'[p].present /\ ~bluez'[p].connected) =>
                 timers'[p] = IF Addr(p) \in trusted_devices
                              THEN timers[p] + 1 ELSE timers[p]
          /\ timers'[p] > 0 => Addr(p) \in trusted_devices
          /\ (btLast'.auto /\ btLast'.path = p) => Addr(p) \in trusted_devices
      ]_vars

\* the link of a trusted device dropped and the reconnect timer armed for it
\* has called Connect() with success
C35_Witness ==
    /\ btLast.op = "timer" /\ btLast.auto /\ btLast.ret
    /\ Addr(btLast.path) \in trusted_devices
    /\ bluez[btLast.path].connected


\* C36: StartDiscovery is sent only while self.discovering is False and
\* StopDiscovery only while it is True; the flag is True exactly when the
\* last adapter command that succeeded was StartDiscovery, and a command that
\* failed leaves the flag as it was.
C36_FlagFollowsAdapter ==
    [][ discovery' # discovery =>
          /\ discovery'.starts > 0 => ~discovery.on
          /\ discovery'.sent > 0 => discovery.on
          /\ discovery'.on = discovery'.scanning
          /\ discovery'.scanning = discovery.scanning =>
                 discovery'.on = discovery.on
          /\ discovery'.sent + discovery'.starts <= 1
      ]_vars

\* the timeout of a session has fired and its StopDiscovery failed: the
\* flag is still True and the adapter still scans
C36_Witness ==
    /\ btLast.op = "discovery_timer"
    /\ discovery.sent = 1
    /\ discovery.on /\ discovery.scanning


\* C37: a session in progress is ended by a timeout only when that timeout
\* is the one its own start armed, that is, when its duration has elapsed;
\* the timeout an earlier session left armed does not end it.
C37_OnlyOwnTimeoutEndsSession ==
    [][ (/\ discovery.on /\ ~discovery'.on
         /\ discovery'.stopTimers # discovery.stopTimers) =>
            discovery.stopTimers \ discovery'.stopTimers = {discovery.session}
      ]_vars


\* C38: however the API thread and the main-loop thread interleave,
\* StartDiscovery and StopDiscovery reach the adapter in strict alternation:
\* StopDiscovery is sent only to an adapter that is scanning, StartDiscovery
\* only to one that is not.
C38_StrictAlternation ==
    [][ discovery' # discovery =>
          /\ discovery'.sent > 0 => discovery.scanning
          /\ discovery'.starts > 0 => ~discovery.scanning
      ]_vars


\* C39: get_discoverable_devices returns only devices that are not paired; a
\* device paired after it was discovered is no longer returned.
C39_DiscoverableAreUnpaired ==
    \A p \in GetDiscoverableDevices(devices) : ~bluez[p].paired


----------------------------------------------------------------------------
\* Claims about the end of the startup probe (SpecProbe).

\* C40: the probe loop ends after at most max_retries attempts whatever each
\* attempt comes to.  The constructor goes on iff one of them, the last
\* included, listed an audio node; after max_retries attempts without one it
\* raises, and nothing is attempted after either end.
C40_ProbeTerminates ==
    [][ /\ lastOp.op \in {"probe", "retry"}
        /\ lastOp'.dev <= max_retries
        /\ lastOp'.op = "found" =>
               lastOp'.key = "found" /\ lastOp'.dev < max_retries
        /\ lastOp'.op = "retry" => lastOp'.key \in {"none", "timeout"}
        /\ lastOp'.op = "failed" <=>
               (lastOp.op = "retry" /\ lastOp.dev = max_retries)
      ]_vars

\* two attempts failed and the third listed an audio node
C40_Witness ==
    /\ lastOp.op = "found"
    /\ lastOp.dev = max_retries - 1

====
